---- MODULE Spec2Model ----
(***************************************************************************)
(* A model of the decision-analysis pipeline of Cause-Way:                 *)
(*   app/services/llm_service.py        question parser, synthesizer       *)
(*   app/services/confounder_service.py confounder detector                *)
(*   app/services/decision_analyzer.py  orchestrator, team impact assessor *)
(*   app/services/document_service.py   retrieval collaborator             *)
(*   app/main.py                        the /api/analyze endpoint          *)
(*                                                                         *)
(* Text is modelled as a sequence of tokens (a word, a brace, a code       *)
(* fence, a whole JSON literal); "kw in text" is token membership.         *)
(* Confidence is kept in thousandths, as an integer.                       *)
(***************************************************************************)
EXTENDS Integers, Sequences, FiniteSets, Bags, TLC

VARIABLES
    pc,             \* position of the request in analyze_decision / analyze
    request,        \* the request body: [valid, question]
    decision_id,    \* decision_id generated at the start of analyze
    recent_changes, \* what document_service.get_recent_changes() returns
    attempt,        \* per backend stage: the loop variable of its retry loop
    directives,     \* per stage: copies of "Return ONLY JSON" appended to the prompt
    calls,          \* per stage: llm.invoke calls made
    hist,           \* per stage: how each attempt ended
    err,            \* the exception the last attempt raised
    parsed,         \* the ParsedQuestion of the request
    parse_path,     \* how parsed was produced
    context,        \* what retrieve_context returned
    confounder_result, \* what detect_confounders returned
    recommendation, \* what generate_recommendation returned
    rec_path,       \* how recommendation was produced
    team_impacts,   \* what _assess_team_impacts returned
    warnings,       \* the warnings list of analyze
    response,       \* the AnalyzeResponse
    outcome,        \* what the caller of the endpoint gets
    db,             \* rows of the decisions table
    fn_in,          \* input of the pure function under test
    fn_out,         \* its result
    inflight,       \* per concurrent request: its position, decision_id, handles
    singletons      \* the lazily built handles of llm_service and document_service

vars == <<pc, request, decision_id, recent_changes, attempt, directives, calls,
          hist, err, parsed, parse_path, context, confounder_result, recommendation,
          rec_path, team_impacts, warnings, response, outcome, db, fn_in, fn_out,
          inflight, singletons>>

(***************************************************************************)
(* Configuration (app/config.py)                                           *)
(***************************************************************************)
CONFOUNDING_WINDOW_DAYS == 14

LLM_MAX_RETRIES == 2

(***************************************************************************)
(* Bounds of the model                                                     *)
(***************************************************************************)
\* longest question (in tokens) given to the rule-based parser on its own
MaxQLen == 3

\* longest change log given to the detector on its own
MaxChanges == 2

\* ticks per calendar day: datetimes carry a time of day
TicksPerDay == 2

\* requests that the server handles at the same time
MaxRequests == 2

\* longest backend text (in tokens) given to the JSON extraction on its own
MaxTextLen == 4

(***************************************************************************)
(* Small helpers                                                           *)
(***************************************************************************)
Range(s) == {s[i] : i \in 1..Len(s)}

\* str.find: the first index holding an element of S, 0 when there is none
FindIn(s, S) ==
    IF \E i \in 1..Len(s) : s[i] \in S
    THEN CHOOSE i \in 1..Len(s) : s[i] \in S /\ \A j \in 1..(i-1) : s[j] \notin S
    ELSE 0

Take(s, n) == SubSeq(s, 1, IF n < Len(s) THEN n ELSE Len(s))

SeqsUpTo(S, n) == UNION {[1..k -> S] : k \in 0..n}

(***************************************************************************)
(* JSON values the backend can return.  A value is an object (isdict) or  *)
(* some other JSON value (a list, a string, null).  has = the keys of the  *)
(* object; bad = the keys whose value has a type the schema field rejects. *)
(***************************************************************************)
Keys == {"treatment", "outcomes", "decision_type", "decision_safe",
         "confidence_level", "suggested_action", "reasoning", "action_details",
         "monitoring_required", "stop_loss_triggers"}

EmptyObj ==
    [isdict |-> TRUE, has |-> {}, bad |-> {},
     treatment |-> <<>>, outcomes |-> <<>>, decision_type |-> "",
     decision_safe |-> FALSE, confidence_level |-> "", suggested_action |-> "",
     reasoning |-> "", action_details |-> "",
     monitoring_required |-> <<>>, stop_loss_triggers |-> <<>>]

\* a JSON value that is not an object, e.g. [1, 2]
JsonList == [EmptyObj EXCEPT !.isdict = FALSE]

(***************************************************************************)
(* Backend text.  A token is a piece of prose, a piece of prose holding    *)
(* the words "not found", a stray brace, a code fence, or a whole JSON     *)
(* literal (tok = "json", val = its value).  Texts are shorter than the    *)
(* 200 characters the error message of _parse_json_response quotes.        *)
(***************************************************************************)
Tok(kind) == [tok |-> kind, val |-> EmptyObj]

Lit(v) == [tok |-> "json", val |-> v]

\* json.loads of a slice: it parses iff the slice is exactly one JSON literal
Loads(s) ==
    IF Len(s) = 1 /\ s[1].tok = "json"
    THEN [ok |-> TRUE, val |-> s[1].val]
    ELSE [ok |-> FALSE, val |-> EmptyObj]

HasOpenBrace(t) == t.tok = "lbrace" \/ (t.tok = "json" /\ t.val.isdict)

HasCloseBrace(t) == t.tok = "rbrace" \/ (t.tok = "json" /\ t.val.isdict)

IsFence(t) == t.tok \in {"fence_json", "fence"}

MentionsNotFound(text) == \E i \in 1..Len(text) : text[i].tok = "not_found"

\* the fenced block of the text: text[start:end] when "```json" is in it
FencedSlice(text) ==
    LET open == CHOOSE i \in 1..Len(text) :
                    /\ text[i].tok = "fence_json"
                    /\ \A j \in 1..(i-1) : text[j].tok # "fence_json"
        close == IF \E i \in (open+1)..Len(text) : IsFence(text[i])
                 THEN CHOOSE i \in (open+1)..Len(text) :
                         /\ IsFence(text[i])
                         /\ \A j \in (open+1)..(i-1) : ~IsFence(text[j])
                 ELSE 0
    IN  IF close > open + 1 THEN SubSeq(text, open + 1, close - 1) ELSE <<>>

\* the slice from the first "{" to the last "}"
BraceSlice(text) ==
    LET first == CHOOSE i \in 1..Len(text) :
                    HasOpenBrace(text[i]) /\ \A j \in 1..(i-1) : ~HasOpenBrace(text[j])
        last == IF \E i \in 1..Len(text) : HasCloseBrace(text[i])
                THEN CHOOSE i \in 1..Len(text) :
                        HasCloseBrace(text[i]) /\ \A j \in (i+1)..Len(text) : ~HasCloseBrace(text[j])
                ELSE 0
    IN  IF last >= first THEN SubSeq(text, first, last) ELSE <<>>

\* mutant: the step that looks for a marked code block left out
Mut_parse_json_response_NoFence(text) ==
    LET direct == Loads(text)
        braced == IF \E i \in 1..Len(text) : HasOpenBrace(text[i])
                  THEN Loads(BraceSlice(text))
                  ELSE [ok |-> FALSE, val |-> EmptyObj]
    IN  IF direct.ok THEN [ok |-> TRUE, val |-> direct.val, nf |-> FALSE]
        ELSE IF braced.ok THEN [ok |-> TRUE, val |-> braced.val, nf |-> FALSE]
        ELSE [ok |-> FALSE, val |-> EmptyObj, nf |-> MentionsNotFound(text)]

\* LLMService._parse_json_response: the value, or ValueError (ok = FALSE) whose
\* message quotes the text (nf: the message holds "not found")
_parse_json_response(text) ==
    LET direct == Loads(text)
        fenced == IF \E i \in 1..Len(text) : text[i].tok = "fence_json"
                  THEN Loads(FencedSlice(text))
                  ELSE [ok |-> FALSE, val |-> EmptyObj]
        braced == IF \E i \in 1..Len(text) : HasOpenBrace(text[i])
                  THEN Loads(BraceSlice(text))
                  ELSE [ok |-> FALSE, val |-> EmptyObj]
    IN  IF direct.ok THEN [ok |-> TRUE, val |-> direct.val, nf |-> FALSE]
        ELSE IF fenced.ok THEN [ok |-> TRUE, val |-> fenced.val, nf |-> FALSE]
        ELSE IF braced.ok THEN [ok |-> TRUE, val |-> braced.val, nf |-> FALSE]
        ELSE [ok |-> FALSE, val |-> EmptyObj, nf |-> MentionsNotFound(text)]

(***************************************************************************)
(* The rule-based question parser (LLMService._rule_based_parse).  A       *)
(* question is a sequence of word tokens; a token can hold a keyword       *)
(* inside a longer word ("because" holds "cause").  Questions of the model  *)
(* are shorter than the 50 characters the treatment excerpt keeps.         *)
(***************************************************************************)
\* str.lower on one token
Lower(t) ==
    CASE t = "Why" -> "why"
      [] t = "Reduce" -> "reduce"
      [] t = "Should" -> "should"
      [] OTHER -> t

\* the keywords that occur as substrings of a (lower-case) token
Holds(t) ==
    CASE t = "because" -> {"cause"}
      [] t = "address" -> {"add"}
      [] OTHER -> {t}

\* kw in question_lower
KwIn(kw, q) == \E i \in 1..Len(q) : kw \in Holds(Lower(q[i]))

\* question_lower.find(kw), 1-based
KwFind(kw, q) ==
    CHOOSE i \in 1..Len(q) :
        /\ kw \in Holds(Lower(q[i]))
        /\ \A j \in 1..(i-1) : kw \notin Holds(Lower(q[j]))

ActionKeywords == <<"reduce", "increase", "change", "add", "remove", "launch", "stop">>

MetricKeywords ==
    << <<"trial", "trial_to_paid">>, <<"conversion", "conversion_rate">>,
       <<"churn", "churn_rate">>, <<"revenue", "revenue">>,
       <<"activation", "activation_rate">>, <<"pricing", "conversion_rate">> >>

DecisionTypes == {"impact_analysis", "root_cause", "should_we"}

\* question[idx:idx+50].split("?")[0].strip()
Excerpt(q, idx) ==
    LET rest == SubSeq(q, idx, Len(q))
        cut == FindIn(rest, {"?"})
    IN  IF cut = 0 THEN rest ELSE SubSeq(rest, 1, cut - 1)

RECURSIVE TreatmentFrom(_, _)
\* the loop over keywords, from keyword k on: the first keyword of the list
\* that occurs in the question decides
TreatmentFrom(q, k) ==
    IF k > Len(ActionKeywords) THEN <<"unknown_change">>
    ELSE IF KwIn(ActionKeywords[k], q) THEN Excerpt(q, KwFind(ActionKeywords[k], q))
    ELSE TreatmentFrom(q, k + 1)

RECURSIVE OutcomesFrom(_, _)
\* the loop over metric_keywords.items(), from entry k on
OutcomesFrom(q, k) ==
    IF k > Len(MetricKeywords) THEN <<>>
    ELSE IF KwIn(MetricKeywords[k][1], q)
         THEN <<MetricKeywords[k][2]>> \o OutcomesFrom(q, k + 1)
         ELSE OutcomesFrom(q, k + 1)

\* mutant: impact-language tested before why-language
Mut_DecisionTypeOf_ImpactFirst(q) ==
    IF KwIn("impact", q) \/ KwIn("effect", q) THEN "impact_analysis"
    ELSE IF KwIn("why", q) \/ KwIn("cause", q) THEN "root_cause"
    ELSE "should_we"

DecisionTypeOf(q) ==
    IF KwIn("why", q) \/ KwIn("cause", q) THEN "root_cause"
    ELSE IF KwIn("impact", q) \/ KwIn("effect", q) THEN "impact_analysis"
    ELSE "should_we"

ParsedQuestion(t, o, d) == [treatment |-> t, outcomes |-> o, decision_type |-> d]

\* mutant: the default outcome forgotten
Mut_rule_based_parse_NoDefault(q) ==
    ParsedQuestion(TreatmentFrom(q, 1), OutcomesFrom(q, 1), DecisionTypeOf(q))

_rule_based_parse(q) ==
    LET found == OutcomesFrom(q, 1)
    IN  ParsedQuestion(TreatmentFrom(q, 1),
                       IF found = <<>> THEN <<"conversion_rate">> ELSE found,
                       DecisionTypeOf(q))

(***************************************************************************)
(* The confounder detector (ConfounderService.detect_confounders).  A      *)
(* change event is [kind, id, description, tick, metrics]:                 *)
(*   kind = "ok"           a well-formed record                            *)
(*          "no_date"      date missing or empty                           *)
(*          "bad_date"     date that dateutil cannot parse                 *)
(*          "bad_metrics"  affected_metrics that set() rejects             *)
(*          "bad_id"       id that is no string (ConfounderInfo rejects it)*)
(*          "not_dict"     an entry that is no JSON object                 *)
(* tick is the parsed date in ticks (UTC), metrics is set(affected_metrics)*)
(***************************************************************************)
\* (current_date - change_date).days: timedelta.days rounds towards minus infinity
DaysSince(now, tick) == (now - tick) \div TicksPerDay

\* mutant: the confidence rounded (half up) to one decimal instead of three
Mut_Confidence_OneDecimal(days) ==
    100 * ((2 * (10 * CONFOUNDING_WINDOW_DAYS - 3 * days) + CONFOUNDING_WINDOW_DAYS)
               \div (2 * CONFOUNDING_WINDOW_DAYS))

\* mutant: a decay of 0.5 over the window instead of 0.3
Mut_Confidence_HalfDecay(days) ==
    (2 * (1000 * CONFOUNDING_WINDOW_DAYS - 500 * days) + CONFOUNDING_WINDOW_DAYS)
        \div (2 * CONFOUNDING_WINDOW_DAYS)

\* round(1.0 - (days / CONFOUNDING_WINDOW_DAYS) * 0.3, 3), in thousandths
\* (no value of days in the window is a rounding tie)
Confidence(days) ==
    (2 * (1000 * CONFOUNDING_WINDOW_DAYS - 300 * days) + CONFOUNDING_WINDOW_DAYS)
        \div (2 * CONFOUNDING_WINDOW_DAYS)

\* mutant: the window boundary taken as exclusive
Mut_InWindow_Exclusive(days) == days < CONFOUNDING_WINDOW_DAYS /\ days >= 0

\* mutant: future-dated changes let through
Mut_InWindow_NoLowerBound(days) == days <= CONFOUNDING_WINDOW_DAYS

InWindow(days) == days <= CONFOUNDING_WINDOW_DAYS /\ days >= 0

ConfounderInfo(change, days, overlap) ==
    [change_id |-> change.id, description |-> change.description, days_ago |-> days,
     affected_metrics |-> overlap, confidence |-> Confidence(days)]

\* one pass of the loop body: "append" with the record, "skip" (continue, or
\* an exception that the handler logs), or "raise" (the handler itself fails)
ProcessChange(change, outcomes, now) ==
    LET days == DaysSince(now, change.tick)
        overlap == change.metrics \cap Range(outcomes)
    IN  IF change.kind = "not_dict" THEN [act |-> "raise"]
        ELSE IF change.kind \in {"no_date", "bad_date"} THEN [act |-> "skip"]
        ELSE IF ~InWindow(days) THEN [act |-> "skip"]
        ELSE IF change.kind = "bad_metrics" THEN [act |-> "skip"]
        ELSE IF overlap = {} THEN [act |-> "skip"]
        ELSE IF change.kind = "bad_id" THEN [act |-> "skip"]
        ELSE [act |-> "append", rec |-> ConfounderInfo(change, days, overlap)]

RECURSIVE DetectLoop(_, _, _, _, _)
\* the for loop from change k on, acc = confounders so far
DetectLoop(changes, outcomes, now, k, acc) ==
    IF k > Len(changes) THEN [ok |-> TRUE, confounders |-> acc]
    ELSE LET step == ProcessChange(changes[k], outcomes, now)
         IN  IF step.act = "raise" THEN [ok |-> FALSE, confounders |-> <<>>]
             ELSE IF step.act = "append"
                  THEN DetectLoop(changes, outcomes, now, k + 1, Append(acc, step.rec))
                  ELSE DetectLoop(changes, outcomes, now, k + 1, acc)

\* mutant: an unstable sort, a record placed before its equals
Mut_InsertByConfidence_BeforeEquals(s, x) ==
    LET n == Cardinality({i \in 1..Len(s) : s[i].confidence > x.confidence})
    IN  SubSeq(s, 1, n) \o <<x>> \o SubSeq(s, n + 1, Len(s))

\* insert x after every element whose confidence is >= x.confidence
InsertByConfidence(s, x) ==
    LET n == Cardinality({i \in 1..Len(s) : s[i].confidence >= x.confidence})
        \* the list is sorted: those elements are the first n
    IN  SubSeq(s, 1, n) \o <<x>> \o SubSeq(s, n + 1, Len(s))

RECURSIVE SortByConfidence(_)
\* list.sort(key=confidence, reverse=True): stable, highest first
SortByConfidence(s) ==
    IF s = <<>> THEN <<>>
    ELSE InsertByConfidence(SortByConfidence(SubSeq(s, 1, Len(s) - 1)), s[Len(s)])

\* mutant: decision_safe taken from the change log being empty
Mut_detect_confounders_SafeIffNoChanges(changes, outcomes, now) ==
    LET loop == DetectLoop(changes, outcomes, now, 1, <<>>)
        sorted == SortByConfidence(loop.confounders)
    IN  [ok |-> loop.ok, confounders |-> sorted,
         decision_safe |-> (Len(changes) = 0), total_confounders |-> Len(sorted)]

\* detect_confounders: ok = FALSE when the call raises
detect_confounders(changes, outcomes, now) ==
    LET loop == DetectLoop(changes, outcomes, now, 1, <<>>)
        sorted == SortByConfidence(loop.confounders)
    IN  [ok |-> loop.ok, confounders |-> sorted,
         decision_safe |-> (Len(sorted) = 0), total_confounders |-> Len(sorted)]

(***************************************************************************)
(* The team impact assessor (DecisionAnalyzer._assess_team_impacts)        *)
(***************************************************************************)
TEAM_METRICS ==
    << <<"growth", {"conversion_rate", "trial_to_paid", "cac"}>>,
       <<"product", {"activation_rate", "churn_rate", "time_to_value"}>>,
       <<"finance", {"revenue"}>>,
       <<"support", {"nps", "support_satisfaction"}>>,
       <<"operations", {}>> >>

ConfounderMetrics(confounders) ==
    UNION {confounders[i].affected_metrics : i \in 1..Len(confounders)}

\* mutant: no team ever at high risk
Mut_TeamImpact_NeverHigh(team, affected, confounders) ==
    [team |-> team, affected_metrics |-> affected, direction |-> "uncertain",
     risk_level |-> IF confounders = <<>> THEN "low" ELSE "medium"]

\* mutant: every team at high risk as soon as there is a confounder
Mut_TeamImpact_HighOnAnyConfounder(team, affected, confounders) ==
    [team |-> team, affected_metrics |-> affected, direction |-> "uncertain",
     risk_level |-> IF confounders = <<>> THEN "low" ELSE "high"]

TeamImpact(team, affected, confounders) ==
    [team |-> team, affected_metrics |-> affected, direction |-> "uncertain",
     risk_level |-> IF confounders = <<>> THEN "low"
                    ELSE IF affected \cap ConfounderMetrics(confounders) # {} THEN "high"
                    ELSE "medium"]

RECURSIVE Mut_AssessFrom_AllTeams(_, _, _)
\* mutant: a record for every team, with an empty set where nothing overlaps
Mut_AssessFrom_AllTeams(outcomes, confounders, k) ==
    IF k > Len(TEAM_METRICS) THEN <<>>
    ELSE <<TeamImpact(TEAM_METRICS[k][1], TEAM_METRICS[k][2] \cap Range(outcomes),
                      confounders)>>
             \o Mut_AssessFrom_AllTeams(outcomes, confounders, k + 1)

RECURSIVE AssessFrom(_, _, _)
AssessFrom(outcomes, confounders, k) ==
    IF k > Len(TEAM_METRICS) THEN <<>>
    ELSE LET affected == TEAM_METRICS[k][2] \cap Range(outcomes)
         IN  IF affected # {}
             THEN <<TeamImpact(TEAM_METRICS[k][1], affected, confounders)>>
                      \o AssessFrom(outcomes, confounders, k + 1)
             ELSE AssessFrom(outcomes, confounders, k + 1)

_assess_team_impacts(outcomes, confounders) == AssessFrom(outcomes, confounders, 1)

(***************************************************************************)
(* The reasoning backend.  One llm.invoke either raises httpx.ConnectError,*)
(* raises another exception (nf: its message holds "not found", as the     *)
(* backend's answer for a model that is not installed does), or returns    *)
(* text.  The backend is free in what it answers to which prompt.          *)
(***************************************************************************)
Obj(keys, bad) == [EmptyObj EXCEPT !.has = keys, !.bad = bad]

ParseKeys == {"treatment", "outcomes", "decision_type"}

BriefKeys == {"decision_safe", "confidence_level", "suggested_action", "reasoning",
              "action_details", "monitoring_required", "stop_loss_triggers"}

ObjParseGood ==
    [Obj(ParseKeys, {}) EXCEPT !.treatment = <<"reduce", "trial">>,
        !.outcomes = <<"conversion_rate", "activation_rate">>,
        !.decision_type = "impact_analysis"]

ObjParseNoOutcomes ==
    [Obj({"treatment", "decision_type"}, {}) EXCEPT !.treatment = <<"raise", "price">>,
        !.decision_type = "should_we"]

ObjParseOddType ==
    [Obj(ParseKeys, {}) EXCEPT !.treatment = <<"raise", "price">>,
        !.outcomes = <<"revenue">>, !.decision_type = "maybe"]

ObjParseManyOutcomes ==
    [Obj(ParseKeys, {}) EXCEPT !.treatment = <<"raise", "price">>,
        !.outcomes = <<"revenue", "churn_rate", "conversion_rate", "trial_to_paid">>,
        !.decision_type = "should_we"]

\* a parse whose first outcome is a metric that no team owns
ObjParseUnowned ==
    [Obj(ParseKeys, {}) EXCEPT !.treatment = <<"raise", "price">>,
        !.outcomes = <<"retention", "revenue">>, !.decision_type = "should_we"]

ObjParseBadOutcomes ==
    [Obj(ParseKeys, {"outcomes"}) EXCEPT !.treatment = <<"raise", "price">>,
        !.decision_type = "should_we"]

ObjBriefSafe ==
    [Obj(BriefKeys, {}) EXCEPT !.decision_safe = TRUE, !.confidence_level = "HIGH",
        !.suggested_action = "PROCEED", !.reasoning = "looks fine",
        !.action_details = "ship it", !.monitoring_required = <<"revenue">>,
        !.stop_loss_triggers = <<"revenue drops">>]

ObjBriefOdd ==
    [Obj({"decision_safe", "confidence_level", "suggested_action"}, {}) EXCEPT
        !.decision_safe = FALSE, !.confidence_level = "VERY_HIGH",
        !.suggested_action = "ABORT"]

ObjBriefBadType ==
    [Obj({"decision_safe", "confidence_level", "reasoning"}, {"confidence_level"}) EXCEPT
        !.decision_safe = TRUE, !.reasoning = "looks fine"]

BackendObjs == {ObjParseGood, ObjParseNoOutcomes, ObjParseOddType, ObjParseBadOutcomes,
                ObjParseManyOutcomes, ObjParseUnowned,
                ObjBriefSafe, ObjBriefOdd, ObjBriefBadType, EmptyObj}

BackendTexts ==
    {<<Lit(o)>> : o \in BackendObjs} \cup
    { <<Lit(JsonList)>>,
      <<Tok("prose"), Tok("fence_json"), Lit(ObjParseGood), Tok("fence")>>,
      <<Tok("prose"), Lit(ObjBriefSafe), Tok("prose")>>,
      <<Tok("prose")>>,
      <<Tok("not_found"), Tok("lbrace")>>,
      <<Lit(ObjBriefSafe), Tok("prose"), Lit(ObjBriefSafe)>> }

BackendReplies ==
    {[kind |-> "connect_error", nf |-> FALSE, text |-> <<>>],
     [kind |-> "exception", nf |-> TRUE, text |-> <<>>],
     [kind |-> "exception", nf |-> FALSE, text |-> <<>>]} \cup
    {[kind |-> "text", nf |-> FALSE, text |-> t] : t \in BackendTexts}

(***************************************************************************)
(* One attempt of a retry loop: what the try body does with the reply      *)
(***************************************************************************)
NoErr == [type |-> "none", nf |-> FALSE]

Exc(type, nf) == [type |-> type, nf |-> nf]

\* dict.get(key, default)
Get(obj, key, default) == IF key \in obj.has THEN obj[key] ELSE default

\* llm.invoke followed by _parse_json_response
InvokeAndParse(reply) ==
    IF reply.kind = "connect_error" THEN [exc |-> Exc("ConnectError", FALSE), val |-> EmptyObj]
    ELSE IF reply.kind = "exception" THEN [exc |-> Exc("BackendError", reply.nf), val |-> EmptyObj]
    ELSE LET r == _parse_json_response(reply.text)
         IN  IF r.ok THEN [exc |-> NoErr, val |-> r.val]
             ELSE [exc |-> Exc("ValueError", r.nf), val |-> EmptyObj]

NoParsed == ParsedQuestion(<<>>, <<>>, "")

\* the try body of parse_question (lines 102-110)
ParseTry(reply) ==
    LET r == InvokeAndParse(reply)
    IN  IF r.exc # NoErr THEN [exc |-> r.exc, val |-> NoParsed]
        ELSE IF ~r.val.isdict THEN [exc |-> Exc("AttributeError", FALSE), val |-> NoParsed]
        ELSE IF r.val.has \cap r.val.bad \cap ParseKeys # {}
             THEN [exc |-> Exc("ValidationError", FALSE), val |-> NoParsed]
        ELSE [exc |-> NoErr,
              val |-> ParsedQuestion(Get(r.val, "treatment", <<"unknown">>),
                                     Get(r.val, "outcomes", <<>>),
                                     Get(r.val, "decision_type", "should_we"))]

\* mutant: the backend's decision_safe trusted
Mut_EnforceConfounderRule_Trusting(result, confounders) == result

\* mutant: the override also rewrites the suggested action
Mut_EnforceConfounderRule_AlsoWait(result, confounders) ==
    IF confounders # <<>>
    THEN [result EXCEPT !.has = @ \cup {"decision_safe", "suggested_action"},
                        !.bad = @ \ {"decision_safe", "suggested_action"},
                        !.decision_safe = FALSE, !.suggested_action = "WAIT"]
    ELSE result

\* the confounder rule of generate_recommendation (lines 196-198)
EnforceConfounderRule(result, confounders) ==
    IF confounders # <<>>
    THEN [result EXCEPT !.has = @ \cup {"decision_safe"}, !.bad = @ \ {"decision_safe"},
                        !.decision_safe = FALSE]
    ELSE result

\* the try body of generate_recommendation (lines 192-200)
RecommendTry(reply, confounders) ==
    LET r == InvokeAndParse(reply)
    IN  IF r.exc # NoErr THEN r
        ELSE IF confounders # <<>> /\ ~r.val.isdict
             THEN [exc |-> Exc("TypeError", FALSE), val |-> EmptyObj]
        ELSE [exc |-> NoErr, val |-> EnforceConfounderRule(r.val, confounders)]

\* mutant: a connection failure treated as one more generic failure
Mut_Classify_ConnectIsGeneric(exc) ==
    IF exc.nf THEN "ModelNotFoundError" ELSE "generic"

\* the except clauses of both loops: what an exception of the try body becomes
Classify(exc) ==
    IF exc.type = "ConnectError" THEN "OllamaUnavailableError"
    ELSE IF exc.nf THEN "ModelNotFoundError"
    ELSE "generic"

HardErrors == {"OllamaUnavailableError", "ModelNotFoundError"}

\* mutant: every outcome put under monitoring
Mut_rule_based_recommendation_MonitorAll(confounders, outcomes) ==
    LET has_confounders == Len(confounders) > 0
    IN  [Obj(BriefKeys, {}) EXCEPT
            !.decision_safe = ~has_confounders,
            !.confidence_level = "LOW",
            !.reasoning = IF has_confounders THEN "confounders detected (LLM fallback mode)"
                          ELSE "no recent confounders (LLM fallback mode)",
            !.suggested_action = IF has_confounders THEN "WAIT" ELSE "RUN_EXPERIMENT",
            !.action_details = IF has_confounders THEN "review confounders"
                               ELSE "consider an experiment",
            !.monitoring_required = outcomes,
            !.stop_loss_triggers = <<"Significant metric degradation", "Unexpected side effects">>]

\* LLMService._rule_based_recommendation
_rule_based_recommendation(confounders, outcomes) ==
    LET has_confounders == Len(confounders) > 0
    IN  [Obj(BriefKeys, {}) EXCEPT
            !.decision_safe = ~has_confounders,
            !.confidence_level = "LOW",
            !.reasoning = IF has_confounders THEN "confounders detected (LLM fallback mode)"
                          ELSE "no recent confounders (LLM fallback mode)",
            !.suggested_action = IF has_confounders THEN "WAIT" ELSE "RUN_EXPERIMENT",
            !.action_details = IF has_confounders THEN "review confounders"
                               ELSE "consider an experiment",
            !.monitoring_required = Take(outcomes, 3),
            !.stop_loss_triggers = <<"Significant metric degradation", "Unexpected side effects">>]

(***************************************************************************)
(* Inputs of a request                                                     *)
(***************************************************************************)
Questions ==
    { <<"Should", "we", "reduce", "trial", "duration", "?">>,
      <<"hello">> }

Requests ==
    {[valid |-> TRUE, question |-> q, requester_team |-> "growth"] : q \in Questions}
        \cup {[valid |-> FALSE, question |-> <<>>, requester_team |-> "growth"]}

\* datetime.now(timezone.utc), in ticks
Now == 20 * TicksPerDay + 1

Change(kind, days, metrics) ==
    [kind |-> kind, id |-> "CHG-1", description |-> "a change",
     tick |-> Now - days * TicksPerDay, metrics |-> metrics]

\* what data/documents/company_changes.json can hold
ChangeLogs ==
    { <<>>,
      <<Change("ok", 3, {"conversion_rate", "revenue", "churn_rate"})>>,
      <<Change("ok", 20, {"conversion_rate", "revenue", "churn_rate"})>>,
      <<Change("ok", 7, {"conversion_rate"}), Change("ok", 1, {"conversion_rate", "trial_to_paid"})>>,
      <<Change("ok", 2, {"retention"})>>,
      <<Change("not_dict", 0, {})>> }

DecisionIds == {"DEC-A", "DEC-B"}

Stages == {"parse", "recommend"}

(***************************************************************************)
(* The retrieval collaborator (DocumentService.retrieve_context)           *)
(***************************************************************************)
IndexStates == {"indexed", "empty", "error"}

\* mutant: a retrieval failure swallowed without its warning
Mut_retrieve_context_SilentError(index) ==
    CASE index = "empty" ->
            [relevant_experiments |-> "",
             warnings |-> <<"No documents indexed. Run ingest_documents.py">>]
      [] index = "error" ->
            [relevant_experiments |-> "", warnings |-> <<>>]
      [] OTHER ->
            [relevant_experiments |-> "experiments", warnings |-> <<>>]

retrieve_context(index) ==
    CASE index = "empty" ->
            [relevant_experiments |-> "",
             warnings |-> <<"No documents indexed. Run ingest_documents.py">>]
      [] index = "error" ->
            [relevant_experiments |-> "", warnings |-> <<"Document retrieval error">>]
      [] OTHER ->
            [relevant_experiments |-> "experiments", warnings |-> <<>>]

(***************************************************************************)
(* The response and the audit row                                          *)
(***************************************************************************)
NoResponse ==
    [decision_id |-> "", question |-> <<>>, treatment |-> <<>>, outcomes |-> <<>>,
     decision_safe |-> FALSE, confidence_level |-> "", suggested_action |-> "",
     reasoning |-> "", action_details |-> "", confounders_detected |-> <<>>,
     monitoring_required |-> <<>>, stop_loss_triggers |-> <<>>,
     team_impacts |-> <<>>, warnings |-> <<>>, none |-> {}]

\* AnalyzeResponse(...) of analyze (lines 120-136); none = the fields that are None
\* mutant: the outcomes of the result taken from the brief's monitoring list
Mut_AnalyzeResponse_OutcomesFromBrief(id, req, p, rec, detected, impacts, warns) ==
    [decision_id |-> id, question |-> req.question, treatment |-> p.treatment,
     outcomes |-> Get(rec, "monitoring_required", p.outcomes),
     decision_safe |-> Get(rec, "decision_safe", detected.decision_safe),
     confidence_level |-> Get(rec, "confidence_level", "LOW"),
     suggested_action |-> Get(rec, "suggested_action", "WAIT"),
     reasoning |-> Get(rec, "reasoning", ""),
     action_details |-> Get(rec, "action_details", ""),
     confounders_detected |-> detected.confounders,
     monitoring_required |-> Get(rec, "monitoring_required", <<>>),
     stop_loss_triggers |-> Get(rec, "stop_loss_triggers", <<>>),
     team_impacts |-> impacts, warnings |-> warns,
     none |-> ({"action_details", "monitoring_required", "stop_loss_triggers"} \ rec.has)
              \cup (IF impacts = <<>> THEN {"team_impacts"} ELSE {})
              \cup (IF warns = <<>> THEN {"warnings"} ELSE {})]

AnalyzeResponse(id, req, p, rec, detected, impacts, warns) ==
    [decision_id |-> id, question |-> req.question, treatment |-> p.treatment,
     outcomes |-> p.outcomes,
     decision_safe |-> Get(rec, "decision_safe", detected.decision_safe),
     confidence_level |-> Get(rec, "confidence_level", "LOW"),
     suggested_action |-> Get(rec, "suggested_action", "WAIT"),
     reasoning |-> Get(rec, "reasoning", ""),
     action_details |-> Get(rec, "action_details", ""),
     confounders_detected |-> detected.confounders,
     monitoring_required |-> Get(rec, "monitoring_required", <<>>),
     stop_loss_triggers |-> Get(rec, "stop_loss_triggers", <<>>),
     team_impacts |-> impacts, warnings |-> warns,
     none |-> ({"action_details", "monitoring_required", "stop_loss_triggers"} \ rec.has)
              \cup (IF impacts = <<>> THEN {"team_impacts"} ELSE {})
              \cup (IF warns = <<>> THEN {"warnings"} ELSE {})]

\* does building the AnalyzeResponse raise?  recommendation.get on a value that
\* is no dict, or a field value the schema rejects
ResponseRaises(rec) == ~rec.isdict \/ rec.has \cap rec.bad \cap BriefKeys # {}

\* mutant: the row's decision_safe recomputed from the confounder list
Mut_Decision_SafeFromConfounders(req, resp) ==
    [decision_id |-> resp.decision_id, question |-> req.question,
     requester_team |-> req.requester_team, treatment |-> resp.treatment,
     outcomes |-> resp.outcomes, confounders_detected |-> resp.confounders_detected,
     decision_safe |-> (resp.confounders_detected = <<>>),
     confidence_level |-> resp.confidence_level,
     suggested_action |-> resp.suggested_action, reasoning |-> resp.reasoning]

\* the Decision row of _log_decision
Decision(req, resp) ==
    [decision_id |-> resp.decision_id, question |-> req.question,
     requester_team |-> req.requester_team, treatment |-> resp.treatment,
     outcomes |-> resp.outcomes, confounders_detected |-> resp.confounders_detected,
     decision_safe |-> resp.decision_safe, confidence_level |-> resp.confidence_level,
     suggested_action |-> resp.suggested_action, reasoning |-> resp.reasoning]

\* mutant: a missing model reported like an unreachable backend
Mut_HttpError_ModelMissingAs503(exception) ==
    CASE exception = "OllamaUnavailableError" -> "503 ollama unavailable"
      [] exception = "ModelNotFoundError" -> "503 ollama unavailable"
      [] OTHER -> "500 analysis failed"

\* what analyze_decision (main.py) makes of an exception leaving analyze
HttpError(exception) ==
    CASE exception = "OllamaUnavailableError" -> "503 ollama unavailable"
      [] exception = "ModelNotFoundError" -> "500 model missing"
      [] OTHER -> "500 analysis failed"

Success == "200 success"

(***************************************************************************)
(* State of a request                                                      *)
(***************************************************************************)
NoDetection == [ok |-> TRUE, confounders |-> <<>>, decision_safe |-> TRUE, total_confounders |-> 0]

NoContext == [relevant_experiments |-> "", warnings |-> <<>>]

\* the requests the server handles at the same time
Reqs == 1..MaxRequests

\* a request before analyze_decision is entered: no decision_id, no handle got
IdleInflight == [pc |-> "idle", decision_id |-> "", llm |-> {}, collection |-> {},
                 logged |-> "none"]

\* self._llm, self._client, self._collection as constructed: None (0), and how
\* many times each was constructed so far
NoSingletons == [llm |-> 0, client |-> 0, collection |-> 0,
                 built |-> [llm |-> 0, client |-> 0, collection |-> 0]]

IdleLlm ==
    /\ attempt = [s \in Stages |-> 0]
    /\ directives = [s \in Stages |-> 0]
    /\ calls = [s \in Stages |-> 0]
    /\ hist = [s \in Stages |-> <<>>]
    /\ err = [s \in Stages |-> NoErr]

IdleRequest ==
    /\ request = [valid |-> FALSE, question |-> <<>>, requester_team |-> ""]
    /\ decision_id = ""
    /\ recent_changes = <<>>
    /\ IdleLlm
    /\ parsed = NoParsed
    /\ parse_path = "none"
    /\ context = NoContext
    /\ confounder_result = NoDetection
    /\ recommendation = EmptyObj
    /\ rec_path = "none"
    /\ team_impacts = <<>>
    /\ warnings = <<>>
    /\ response = NoResponse
    /\ outcome = "none"
    /\ db = <<>>
    /\ inflight = [r \in Reqs |-> IdleInflight]
    /\ singletons = NoSingletons

Init ==
    /\ pc = "idle"
    /\ IdleRequest
    /\ fn_in = <<>>
    /\ fn_out = <<>>

llm_vars == <<attempt, directives, calls, hist, err>>

fn_vars == <<fn_in, fn_out>>

conc_vars == <<inflight, singletons>>

(***************************************************************************)
(* analyze_decision (main.py) and DecisionAnalyzer.analyze, one action per *)
(* stage and one per attempt of a retry loop                               *)
(***************************************************************************)
\* mutant: the error wrapped instead of propagated unchanged
Mut_Abort_Wrapped(exception) ==
    /\ pc' = "done"
    /\ outcome' = "500 analysis failed"

\* an exception leaves analyze: analyze_decision turns it into an HTTP error
Abort(exception) ==
    /\ pc' = "done"
    /\ outcome' = HttpError(exception)

\* mutant: the body handed to analyze without validation
Mut_Receive_NoValidation ==
    /\ pc = "idle"
    /\ \E req \in Requests, id \in DecisionIds :
        /\ request' = req
        /\ decision_id' = id
        /\ pc' = "parse"
    /\ UNCHANGED <<recent_changes, llm_vars, parsed, parse_path, context,
                   confounder_result, recommendation, rec_path, team_impacts,
                   warnings, response, outcome, db, fn_vars, conc_vars>>

\* the request arrives; FastAPI validates the body, analyze makes decision_id
Receive ==
    /\ pc = "idle"
    /\ \E req \in Requests, id \in DecisionIds :
        /\ request' = req
        /\ IF req.valid
           THEN /\ decision_id' = id
                /\ pc' = "parse"
                /\ outcome' = outcome
           ELSE /\ decision_id' = decision_id
                /\ pc' = "done"
                /\ outcome' = "422 validation error"
    /\ UNCHANGED <<recent_changes, llm_vars, parsed, parse_path, context,
                   confounder_result, recommendation, rec_path, team_impacts,
                   warnings, response, db, fn_vars, conc_vars>>

\* bookkeeping of one attempt of the loop of stage st that ended as `how`
AttemptEnds(st, exc, how) ==
    /\ calls' = [calls EXCEPT ![st] = @ + 1]
    /\ hist' = [hist EXCEPT ![st] = Append(@, how)]
    /\ err' = [err EXCEPT ![st] = exc]

\* mutant: one retry too many
Mut_MayRetry_OneMore(st) == attempt[st] <= LLM_MAX_RETRIES

\* mutant: the fallback taken one attempt early
Mut_MayRetry_OneLess(st) == attempt[st] < LLM_MAX_RETRIES - 1

\* "if attempt < LLM_MAX_RETRIES" of the except clause
MayRetry(st) == attempt[st] < LLM_MAX_RETRIES

\* mutant: the retry made with the prompt unchanged
Mut_Retry_NoDirective(st) ==
    /\ attempt' = [attempt EXCEPT ![st] = @ + 1]
    /\ directives' = directives

\* the except clause of a generic failure on an attempt that is not the last
Retry(st) ==
    /\ attempt' = [attempt EXCEPT ![st] = @ + 1]
    /\ directives' = [directives EXCEPT ![st] = @ + 1]

\* Step 1: one attempt of parse_question, and what analyze does with its end.
\* parse_question raises nothing but the two hard errors (its fallback cannot
\* fail), so the "except Exception" clause of analyze has no transition; the
\* same holds for generate_recommendation in step 4.
ParseAttempt ==
    /\ pc = "parse"
    /\ \E reply \in BackendReplies :
        LET try == ParseTry(reply)
            class == Classify(try.exc)
        IN  IF try.exc = NoErr
            THEN /\ AttemptEnds("parse", NoErr, "returned")
                 /\ parsed' = try.val
                 /\ parse_path' = "backend"
                 /\ pc' = "retrieve"
                 /\ UNCHANGED <<attempt, directives, outcome>>
            ELSE IF class \in HardErrors
            THEN /\ AttemptEnds("parse", try.exc, class)
                 /\ Abort(class)
                 /\ UNCHANGED <<attempt, directives, parsed, parse_path>>
            ELSE IF MayRetry("parse")
            THEN /\ AttemptEnds("parse", try.exc, "generic")
                 /\ Retry("parse")
                 /\ UNCHANGED <<pc, parsed, parse_path, outcome>>
            ELSE /\ AttemptEnds("parse", try.exc, "generic")
                 /\ parsed' = _rule_based_parse(request.question)
                 /\ parse_path' = "rule_based"
                 /\ pc' = "retrieve"
                 /\ UNCHANGED <<attempt, directives, outcome>>
    /\ UNCHANGED <<request, decision_id, recent_changes, context, confounder_result,
                   recommendation, rec_path, team_impacts, warnings, response, db,
                   fn_vars, conc_vars>>

\* Step 2: retrieve_context, its warnings merged
Retrieve ==
    /\ pc = "retrieve"
    /\ \E index \in IndexStates :
        /\ context' = retrieve_context(index)
        /\ warnings' = warnings \o retrieve_context(index).warnings
    /\ pc' = "detect"
    /\ UNCHANGED <<request, decision_id, recent_changes, llm_vars, parsed, parse_path,
                   confounder_result, recommendation, rec_path, team_impacts,
                   response, outcome, db, fn_vars, conc_vars>>

\* Step 3: get_recent_changes and detect_confounders (outside any try)
Detect ==
    /\ pc = "detect"
    /\ \E log \in ChangeLogs :
        LET result == detect_confounders(log, parsed.outcomes, Now)
        IN  /\ recent_changes' = log
            /\ IF result.ok
               THEN /\ confounder_result' = result
                    /\ pc' = "recommend"
                    /\ outcome' = outcome
               ELSE /\ confounder_result' = confounder_result
                    /\ Abort("AttributeError")
    /\ UNCHANGED <<request, decision_id, llm_vars, parsed, parse_path, context,
                   recommendation, rec_path, team_impacts, warnings, response, db,
                   fn_vars, conc_vars>>

\* Step 4: one attempt of generate_recommendation, and what analyze does with its end
RecommendAttempt ==
    /\ pc = "recommend"
    /\ \E reply \in BackendReplies :
        LET try == RecommendTry(reply, confounder_result.confounders)
            class == Classify(try.exc)
        IN  IF try.exc = NoErr
            THEN /\ AttemptEnds("recommend", NoErr, "returned")
                 /\ recommendation' = try.val
                 /\ rec_path' = "backend"
                 /\ pc' = "assess"
                 /\ UNCHANGED <<attempt, directives, outcome>>
            ELSE IF class \in HardErrors
            THEN /\ AttemptEnds("recommend", try.exc, class)
                 /\ Abort(class)
                 /\ UNCHANGED <<attempt, directives, recommendation, rec_path>>
            ELSE IF MayRetry("recommend")
            THEN /\ AttemptEnds("recommend", try.exc, "generic")
                 /\ Retry("recommend")
                 /\ UNCHANGED <<pc, recommendation, rec_path, outcome>>
            ELSE /\ AttemptEnds("recommend", try.exc, "generic")
                 /\ recommendation' = _rule_based_recommendation(
                                          confounder_result.confounders, parsed.outcomes)
                 /\ rec_path' = "rule_based"
                 /\ pc' = "assess"
                 /\ UNCHANGED <<attempt, directives, outcome>>
    /\ UNCHANGED <<request, decision_id, recent_changes, parsed, parse_path, context,
                   confounder_result, team_impacts, warnings, response, db, fn_vars, conc_vars>>

\* mutant: detection run again after the team assessment
Mut_AssessTeams_Redetect ==
    /\ pc = "assess"
    /\ team_impacts' = _assess_team_impacts(parsed.outcomes, confounder_result.confounders)
    /\ pc' = "detect"
    /\ UNCHANGED <<request, decision_id, recent_changes, llm_vars, parsed, parse_path,
                   context, confounder_result, recommendation, rec_path, warnings,
                   response, outcome, db, fn_vars, conc_vars>>

\* Step 5: _assess_team_impacts
AssessTeams ==
    /\ pc = "assess"
    /\ team_impacts' = _assess_team_impacts(parsed.outcomes, confounder_result.confounders)
    /\ pc' = "assemble"
    /\ UNCHANGED <<request, decision_id, recent_changes, llm_vars, parsed, parse_path,
                   context, confounder_result, recommendation, rec_path, warnings,
                   response, outcome, db, fn_vars, conc_vars>>

\* Build response (outside any try)
Assemble ==
    /\ pc = "assemble"
    /\ IF ResponseRaises(recommendation)
       THEN /\ Abort(IF recommendation.isdict THEN "ValidationError" ELSE "AttributeError")
            /\ response' = response
       ELSE /\ response' = AnalyzeResponse(decision_id, request, parsed, recommendation,
                                           confounder_result, team_impacts, warnings)
            /\ pc' = "audit"
            /\ outcome' = outcome
    /\ UNCHANGED <<request, decision_id, recent_changes, llm_vars, parsed, parse_path,
                   context, confounder_result, recommendation, rec_path, team_impacts,
                   warnings, db, fn_vars, conc_vars>>

\* mutant: the failed write swallowed without a warning
Mut_WithLoggingWarning_Silent(resp) == resp

\* the except clause of step 6: the warnings list created if it was None, and
\* the warning appended
WithLoggingWarning(resp) ==
    [resp EXCEPT !.warnings = Append(@, "Decision logging failed"),
                 !.none = @ \ {"warnings"}]

\* Step 6: _log_decision in its try, then return response
Audit ==
    /\ pc = "audit"
    /\ \E written \in BOOLEAN :
        IF written
        THEN /\ db' = Append(db, Decision(request, response))
             /\ response' = response
        ELSE /\ db' = db
             /\ response' = WithLoggingWarning(response)
    /\ pc' = "done"
    /\ outcome' = Success
    /\ UNCHANGED <<request, decision_id, recent_changes, llm_vars, parsed, parse_path,
                   context, confounder_result, recommendation, rec_path, team_impacts,
                   warnings, fn_vars, conc_vars>>

Next ==
    \/ Receive
    \/ ParseAttempt
    \/ Retrieve
    \/ Detect
    \/ RecommendAttempt
    \/ AssessTeams
    \/ Assemble
    \/ Audit

Spec == Init /\ [][Next]_vars

(***************************************************************************)
(* The rule-based parser on its own: every question of up to MaxQLen       *)
(* tokens over Vocabulary                                                  *)
(***************************************************************************)
Vocabulary == {"reduce", "Reduce", "change", "trial", "conversion", "pricing",
               "churn", "Why", "because", "impact", "effect", "?", "we"}

InitRuleParse ==
    /\ pc = "fn_ready"
    /\ IdleRequest
    /\ fn_in \in SeqsUpTo(Vocabulary, MaxQLen)
    /\ fn_out = NoParsed

RuleParse ==
    /\ pc = "fn_ready"
    /\ fn_out' = _rule_based_parse(fn_in)
    /\ pc' = "fn_done"
    /\ UNCHANGED <<request, decision_id, recent_changes, llm_vars, parsed, parse_path,
                   context, confounder_result, recommendation, rec_path, team_impacts,
                   warnings, response, outcome, db, fn_in, conc_vars>>

SpecRuleParse == InitRuleParse /\ [][RuleParse]_vars

(***************************************************************************)
(* The detector on its own: every change log of up to MaxChanges events    *)
(***************************************************************************)
\* whole days, the last tick of day 14, and half a day in the future
ChangeTicks ==
    {Now - d * TicksPerDay : d \in {0, 1, 3, 7, 14, 15, 20}}
        \cup {Now - 15 * TicksPerDay + 1, Now + 1}

ChangeEvents ==
    {[kind |-> "ok", id |-> "CHG-1", description |-> "a change", tick |-> t, metrics |-> m] :
        t \in ChangeTicks, m \in {{"conversion_rate", "revenue", "churn_rate"}, {"nps"}}}
    \cup
    {[kind |-> k, id |-> "CHG-2", description |-> "a change", tick |-> Now - TicksPerDay,
      metrics |-> {"conversion_rate"}] :
        k \in {"no_date", "bad_date", "bad_metrics", "bad_id", "not_dict"}}

OutcomeLists == {<<"conversion_rate", "activation_rate">>, <<"revenue", "nps", "revenue">>, <<>>}

InitDetect ==
    /\ pc = "fn_ready"
    /\ IdleRequest
    /\ fn_in \in [changes : SeqsUpTo(ChangeEvents, MaxChanges), outcomes : OutcomeLists]
    /\ fn_out = NoDetection

DetectOnly ==
    /\ pc = "fn_ready"
    /\ fn_out' = detect_confounders(fn_in.changes, fn_in.outcomes, Now)
    /\ pc' = "fn_done"
    /\ UNCHANGED <<request, decision_id, recent_changes, llm_vars, parsed, parse_path,
                   context, confounder_result, recommendation, rec_path, team_impacts,
                   warnings, response, outcome, db, fn_in, conc_vars>>

SpecDetect == InitDetect /\ [][DetectOnly]_vars

(***************************************************************************)
(* The JSON extraction on its own: every text of up to MaxTextLen tokens   *)
(***************************************************************************)
TextTokens ==
    {Tok(k) : k \in {"prose", "not_found", "lbrace", "rbrace", "fence_json", "fence"}}
        \cup {Lit(ObjParseGood), Lit(ObjBriefSafe), Lit(JsonList)}

NoExtraction == [ok |-> FALSE, val |-> EmptyObj, nf |-> FALSE]

InitExtract ==
    /\ pc = "fn_ready"
    /\ IdleRequest
    /\ fn_in \in SeqsUpTo(TextTokens, MaxTextLen)
    /\ fn_out = NoExtraction

Extract ==
    /\ pc = "fn_ready"
    /\ fn_out' = _parse_json_response(fn_in)
    /\ pc' = "fn_done"
    /\ UNCHANGED <<request, decision_id, recent_changes, llm_vars, parsed, parse_path,
                   context, confounder_result, recommendation, rec_path, team_impacts,
                   warnings, response, outcome, db, fn_in, conc_vars>>

SpecExtract == InitExtract /\ [][Extract]_vars

(***************************************************************************)
(* Several requests at once.  Every endpoint of main.py is a coroutine on   *)
(* the one event loop of the server, and analyze never suspends: its two    *)
(* awaits call coroutines that only make synchronous calls (llm.invoke,     *)
(* chromadb, the SQLAlchemy session).  A request that has entered analyze   *)
(* therefore runs to its end before the handler of another request runs.    *)
(* A handle is the serial number of its construction (0 = None).            *)
(***************************************************************************)
one_vars == <<pc, request, decision_id, recent_changes, llm_vars, parsed, parse_path,
              context, confounder_result, recommendation, rec_path, team_impacts,
              warnings, response, outcome, fn_vars>>

\* mutant: handlers on threads, a request runs while another is inside analyze
Mut_MayRun_Threads(r) == TRUE

\* the event loop lets the handler of r run: no other request is inside analyze
MayRun(r) == \A q \in Reqs \ {r} : inflight[q].pc \in {"idle", "done"}

\* self._llm = ChatOllama(...)
BuildLlm(s) == [s EXCEPT !.llm = s.built.llm + 1, !.built.llm = @ + 1]

\* DocumentService._get_client; ok = FALSE: PersistentClient(...) raises
_get_client(s, ok) ==
    IF s.client = 0 /\ ok
    THEN [s EXCEPT !.client = s.built.client + 1, !.built.client = @ + 1]
    ELSE s

\* the body of "if self._collection is None" of _get_collection; coll_ok =
\* FALSE: get_or_create_collection raises
BuildCollection(s, client_ok, coll_ok) ==
    LET s1 == _get_client(s, client_ok)
    IN  IF s1.client # 0 /\ coll_ok
        THEN [s1 EXCEPT !.collection = s1.built.collection + 1,
                        !.built.collection = @ + 1]
        ELSE s1

\* where analyze goes after a backend stage: a hard error ends the request
AfterStage(stage, hard) ==
    IF hard THEN "done" ELSE IF stage = "parse" THEN "retrieve" ELSE "audit"

\* the stage a position belongs to
StageOf(position) == IF position \in {"parse", "parse_init"} THEN "parse" ELSE "recommend"

\* the row of the decisions table for decision_id id
AuditRow(id) ==
    Decision([valid |-> TRUE, question |-> <<>>, requester_team |-> ""],
             [NoResponse EXCEPT !.decision_id = id])

InitConc ==
    /\ pc = "serving"
    /\ IdleRequest
    /\ fn_in = <<>>
    /\ fn_out = <<>>

\* analyze is entered: decision_id = DEC-<date>-<8 hex digits of uuid4>
CReceive(r) ==
    /\ MayRun(r)
    /\ inflight[r].pc = "idle"
    /\ \E id \in DecisionIds :
        inflight' = [inflight EXCEPT ![r].pc = "parse", ![r].decision_id = id]
    /\ UNCHANGED <<one_vars, db, singletons>>

\* _get_llm, the test "self._llm is None" (in parse_question and in
\* generate_recommendation); with a handle the stage runs and ends
CGetLlm(r) ==
    /\ MayRun(r)
    /\ inflight[r].pc \in {"parse", "recommend"}
    /\ IF singletons.llm = 0
       THEN inflight' = [inflight EXCEPT ![r].pc = StageOf(@) \o "_init"]
       ELSE \E hard \in BOOLEAN :
                inflight' = [inflight EXCEPT ![r].llm = @ \cup {singletons.llm},
                                             ![r].pc = AfterStage(@, hard)]
    /\ UNCHANGED <<one_vars, db, singletons>>

\* _get_llm, the construction after the test saw None; then the stage runs
CBuildLlm(r) ==
    /\ MayRun(r)
    /\ inflight[r].pc \in {"parse_init", "recommend_init"}
    /\ singletons' = BuildLlm(singletons)
    /\ \E hard \in BOOLEAN :
        inflight' = [inflight EXCEPT ![r].llm = @ \cup {singletons'.llm},
                                     ![r].pc = AfterStage(StageOf(@), hard)]
    /\ UNCHANGED <<one_vars, db>>

\* _get_collection in retrieve_context, the test "self._collection is None"
CGetCollection(r) ==
    /\ MayRun(r)
    /\ inflight[r].pc = "retrieve"
    /\ IF singletons.collection = 0
       THEN inflight' = [inflight EXCEPT ![r].pc = "retrieve_init"]
       ELSE inflight' = [inflight EXCEPT ![r].collection = @ \cup {singletons.collection},
                                         ![r].pc = "recommend"]
    /\ UNCHANGED <<one_vars, db, singletons>>

\* _get_collection, the construction after the test saw None; an exception is
\* caught by retrieve_context, and the request goes on without a handle
CBuildCollection(r) ==
    /\ MayRun(r)
    /\ inflight[r].pc = "retrieve_init"
    /\ \E client_ok, coll_ok \in BOOLEAN :
        /\ singletons' = BuildCollection(singletons, client_ok, coll_ok)
        /\ inflight' = [inflight EXCEPT
                ![r].collection =
                    IF singletons'.built.collection # singletons.built.collection
                    THEN @ \cup {singletons'.collection} ELSE @,
                ![r].pc = "recommend"]
    /\ UNCHANGED <<one_vars, db>>

\* _log_decision: db.add and db.commit; decision_id is a unique column, a
\* second row with the same decision_id raises IntegrityError, which the
\* caller catches like any other failure of the write
CAudit(r) ==
    /\ MayRun(r)
    /\ inflight[r].pc = "audit"
    /\ IF \E i \in 1..Len(db) : db[i].decision_id = inflight[r].decision_id
       THEN /\ db' = db
            /\ inflight' = [inflight EXCEPT ![r].logged = "unique_violation",
                                            ![r].pc = "done"]
       ELSE \E written \in BOOLEAN :
            /\ db' = IF written THEN Append(db, AuditRow(inflight[r].decision_id)) ELSE db
            /\ inflight' = [inflight EXCEPT
                                ![r].logged = IF written THEN "written" ELSE "failed",
                                ![r].pc = "done"]
    /\ UNCHANGED <<one_vars, singletons>>

NextConc ==
    \E r \in Reqs :
        \/ CReceive(r)
        \/ CGetLlm(r)
        \/ CBuildLlm(r)
        \/ CGetCollection(r)
        \/ CBuildCollection(r)
        \/ CAudit(r)

SpecConc == InitConc /\ [][NextConc]_vars

(***************************************************************************)
(* Properties                                                              *)
(***************************************************************************)
Last(s) == s[Len(s)]

\* how the result of stage st was produced
PathOf(st) == IF st = "parse" THEN parse_path ELSE rec_path

\* the request has left stage st
StageOver(st) ==
    IF st = "parse" THEN pc \notin {"idle", "parse"} /\ request.valid
    ELSE pc \in {"assess", "assemble", "audit"} \/ (pc = "done" /\ hist["recommend"] # <<>>)

AllGeneric(h) == \A i \in 1..Len(h) : h[i] = "generic"

\* C1: a Success result with a non-empty confounder list has decision_safe =
\* false, whatever the backend returned and whichever path made the brief.
C1_ConfoundersImplyUnsafe ==
    outcome = Success /\ response.confounders_detected # <<>>
        => response.decision_safe = FALSE

\* C1 witness: a Success result with confounders whose brief is the backend's
\* own (the backend said decision_safe: true, PROCEED).
C1_Witness ==
    /\ outcome = Success
    /\ response.confounders_detected # <<>>
    /\ rec_path = "backend"
    /\ response.suggested_action = "PROCEED"
    /\ response.decision_safe = FALSE

\* C2: an attempt that fails with backend-unreachable or model-not-found ends
\* its call at once: it is the last attempt, the error reaches the caller as
\* that hard error, and no fallback result is returned.
C2_HardErrorPropagatesAtOnce ==
    \A st \in Stages :
        (err[st].type = "ConnectError" \/ (err[st].type = "BackendError" /\ err[st].nf))
            => /\ Last(hist[st]) = (IF err[st].type = "ConnectError"
                                    THEN "OllamaUnavailableError" ELSE "ModelNotFoundError")
               /\ \A i \in 1..(Len(hist[st]) - 1) : hist[st][i] = "generic"
               /\ calls[st] = Len(hist[st])
               /\ PathOf(st) = "none"
               /\ pc = "done"
               /\ outcome = HttpError(Last(hist[st]))

\* C2 witness: a retry (not the first attempt) of generate_recommendation
\* found the backend unreachable.
C2_Witness ==
    /\ Len(hist["recommend"]) = 2
    /\ err["recommend"].type = "ConnectError"
    /\ outcome = "503 ollama unavailable"

\* C3: a malformed response (text that _parse_json_response cannot parse) never
\* makes parse_question or generate_recommendation raise.
C3_MalformedNeverSurfaces ==
    \A st \in Stages :
        err[st].type = "ValueError" => Last(hist[st]) \notin HardErrors

\* C4: a request that passed validation ends in Success or in a hard failure,
\* never in another error (stated for change logs that hold only records, so
\* that the failure is the backend's output alone).
C4_SuccessOrHardFailure ==
    (pc = "done" /\ request.valid
        /\ \A i \in 1..Len(recent_changes) : recent_changes[i].kind # "not_dict")
        => outcome \in {Success, "503 ollama unavailable", "500 model missing"}

\* C5: a call makes at most LLM_MAX_RETRIES + 1 backend invocations, a call
\* that is still running has made at most LLM_MAX_RETRIES, and a call that is
\* over has ended in a result or in one of the two hard errors.
C5_BoundedAttempts ==
    \A st \in Stages :
        /\ calls[st] <= LLM_MAX_RETRIES + 1
        /\ calls[st] = Len(hist[st])
        /\ pc = (IF st = "parse" THEN "parse" ELSE "recommend")
                => calls[st] <= LLM_MAX_RETRIES /\ AllGeneric(hist[st])
        /\ StageOver(st)
                => \/ PathOf(st) \in {"backend", "rule_based"}
                   \/ PathOf(st) = "none" /\ Last(hist[st]) \in HardErrors

\* C5 witness: a call that used all LLM_MAX_RETRIES + 1 invocations.
C5_Witness ==
    /\ calls["parse"] = LLM_MAX_RETRIES + 1
    /\ calls["recommend"] = LLM_MAX_RETRIES + 1
    /\ pc = "done"

\* what an attempt of parse_question can return from the backend
BackendParses == {ParseTry(r).val : r \in {x \in BackendReplies : ParseTry(x).exc = NoErr}}

\* what an attempt of generate_recommendation can return from the backend
BackendBriefs ==
    {RecommendTry(r, confounder_result.confounders).val :
        r \in {x \in BackendReplies :
                  RecommendTry(x, confounder_result.confounders).exc = NoErr}}

\* C6: the rule-based fallback is returned only after LLM_MAX_RETRIES + 1
\* attempts that all failed generically; an attempt that succeeds is the last
\* one of its call, and what the call returns is a backend result.
C6_FallbackOnlyAfterAllAttempts ==
    \A st \in Stages :
        /\ PathOf(st) = "rule_based"
            => Len(hist[st]) = LLM_MAX_RETRIES + 1 /\ AllGeneric(hist[st])
        /\ \A i \in 1..Len(hist[st]) :
            hist[st][i] = "returned"
                => /\ i = Len(hist[st])
                   /\ calls[st] = i
                   /\ PathOf(st) = "backend"
                   /\ \A j \in 1..(i-1) : hist[st][j] = "generic"
        /\ PathOf(st) = "backend" => Last(hist[st]) = "returned"
        /\ parse_path = "backend" => parsed \in BackendParses
        /\ rec_path = "backend" => recommendation \in BackendBriefs

\* C6 witness: the parser succeeded on its second attempt and the synthesizer
\* fell back after all attempts.
C6_Witness ==
    /\ parse_path = "backend"
    /\ hist["parse"] = <<"generic", "returned">>
    /\ rec_path = "rule_based"

NoMetricKeyword(q) == \A k \in 1..Len(MetricKeywords) : ~KwIn(MetricKeywords[k][1], q)

\* C7: for every question the rule-based parser returns a ParsedQuestion with
\* non-empty outcomes: the single metric conversion_rate when the question
\* holds no metric keyword.
C7_RuleBasedOutcomesNonEmpty ==
    pc = "fn_done"
        => /\ fn_out.outcomes # <<>>
           /\ NoMetricKeyword(fn_in) => fn_out.outcomes = <<"conversion_rate">>
           /\ fn_out.decision_type \in DecisionTypes

\* C7 witness: a question of full length without any metric keyword was parsed.
C7_Witness ==
    /\ pc = "fn_done"
    /\ Len(fn_in) = MaxQLen
    /\ NoMetricKeyword(fn_in)
    /\ fn_out.outcomes = <<"conversion_rate">>

\* C8: every ParsedQuestion that parse_question returns has non-empty outcomes.
C8_ParsedOutcomesNonEmpty ==
    parse_path \in {"backend", "rule_based"} => parsed.outcomes # <<>>

\* C9: in every Success result decision_type, suggested_action and
\* confidence_level are values of their enumerations.
C9_StrictShapes ==
    outcome = Success
        => /\ parsed.decision_type \in DecisionTypes
           /\ response.suggested_action \in {"PROCEED", "WAIT", "RUN_EXPERIMENT"}
           /\ response.confidence_level \in {"HIGH", "MEDIUM", "LOW"}

\* the multiset of the elements of a sequence
SeqToBag(s) == [x \in Range(s) |-> Cardinality({i \in 1..Len(s) : s[i] = x})]

Abs(x) == IF x < 0 THEN -x ELSE x

\* c is 1.0 - (days / WINDOW) * 0.3 rounded to thousandths
IsRoundedConfidence(c, days) ==
    2 * Abs(CONFOUNDING_WINDOW_DAYS * c - (1000 * CONFOUNDING_WINDOW_DAYS - 300 * days))
        <= CONFOUNDING_WINDOW_DAYS

\* whole days from the change to now: the largest d with d days not after now
WholeDays(tick) == CHOOSE d \in -2..40 : d * TicksPerDay <= Now - tick /\ Now - tick < (d + 1) * TicksPerDay

\* C10: when the change log holds only records, the confounders are, one for
\* one, the well-formed changes with 0 <= days_ago <= WINDOW and a non-empty
\* overlap with the outcomes; each record has the whole-day difference, the
\* overlap, and the rounded confidence (3 days -> 0.936, 1 -> 0.979, 7 -> 0.85,
\* 14 -> 0.7).
C10_OneRecordPerQualifyingChange ==
    (pc = "fn_done" /\ \A i \in 1..Len(fn_in.changes) : fn_in.changes[i].kind # "not_dict")
        => LET Qualifies(c) ==
                   /\ c.kind = "ok"
                   /\ WholeDays(c.tick) >= 0
                   /\ WholeDays(c.tick) <= CONFOUNDING_WINDOW_DAYS
                   /\ c.metrics \cap Range(fn_in.outcomes) # {}
               qualifying == SelectSeq(fn_in.changes, Qualifies)
               Key(r) == [change_id |-> r.change_id, days_ago |-> r.days_ago,
                          affected_metrics |-> r.affected_metrics]
           IN  /\ fn_out.ok
               /\ SeqToBag([i \in 1..Len(fn_out.confounders) |-> Key(fn_out.confounders[i])])
                    = SeqToBag([i \in 1..Len(qualifying) |->
                                   [change_id |-> qualifying[i].id,
                                    days_ago |-> WholeDays(qualifying[i].tick),
                                    affected_metrics |-> qualifying[i].metrics
                                                            \cap Range(fn_in.outcomes)]])
               /\ \A i \in 1..Len(fn_out.confounders) :
                    LET r == fn_out.confounders[i]
                    IN  /\ IsRoundedConfidence(r.confidence, r.days_ago)
                        /\ r.days_ago = 3 => r.confidence = 936
                        /\ r.days_ago = 1 => r.confidence = 979
                        /\ r.days_ago = 7 => r.confidence = 850
                        /\ r.days_ago = 14 => r.confidence = 700

\* C10 witness: a log of two changes, one at the window boundary that became a
\* record with confidence 0.7, one that did not qualify.
C10_Witness ==
    /\ pc = "fn_done"
    /\ Len(fn_in.changes) = 2
    /\ Len(fn_out.confounders) = 1
    /\ fn_out.confounders[1].days_ago = CONFOUNDING_WINDOW_DAYS
    /\ fn_out.confounders[1].confidence = 700

\* the change can give no record: older than the window, future-dated, or
\* without a metric in common with the outcomes
Excluded(c, outcomes) ==
    \/ WholeDays(c.tick) > CONFOUNDING_WINDOW_DAYS
    \/ WholeDays(c.tick) < 0
    \/ c.metrics \cap Range(outcomes) = {}

QualifyingKeys(changes, outcomes) ==
    LET Qualifies(c) == c.kind = "ok" /\ ~Excluded(c, outcomes)
        q == SelectSeq(changes, Qualifies)
    IN  [i \in 1..Len(q) |->
            [days_ago |-> WholeDays(q[i].tick),
             affected_metrics |-> q[i].metrics \cap Range(outcomes)]]

\* C12: the confounder list is sorted by confidence descending, and the records
\* of one confidence are in the order of their changes in the input.
C12_SortedByConfidenceStable ==
    (pc = "fn_done" /\ fn_out.ok)
        => LET out == fn_out.confounders
               expected == QualifyingKeys(fn_in.changes, fn_in.outcomes)
               KeyOf(r) == [days_ago |-> r.days_ago, affected_metrics |-> r.affected_metrics]
               outKeys == [i \in 1..Len(out) |-> KeyOf(out[i])]
           IN  /\ \A i, j \in 1..Len(out) :
                    i < j => out[i].confidence >= out[j].confidence
               /\ \A i \in 1..Len(out) :
                    LET Same(k) == IsRoundedConfidence(out[i].confidence, k.days_ago)
                    IN  SelectSeq(outKeys, Same) = SelectSeq(expected, Same)

\* C12 witness: two records of equal confidence that differ (two changes of the
\* same day touching different outcomes), returned in input order.
C12_Witness ==
    /\ pc = "fn_done"
    /\ Len(fn_out.confounders) = 2
    /\ fn_out.confounders[1].confidence = fn_out.confounders[2].confidence
    /\ fn_out.confounders[1].affected_metrics # fn_out.confounders[2].affected_metrics
    /\ fn_in.changes[1].metrics \cap Range(fn_in.outcomes) = fn_out.confounders[1].affected_metrics

\* C13: a malformed change event never makes detect_confounders fail: the call
\* returns, and its result is the result for the input without the malformed
\* events.
C13_MalformedEventsAreDropped ==
    pc = "fn_done"
        => LET WellFormed(c) == c.kind = "ok"
           IN  /\ fn_out.ok
               /\ fn_out = detect_confounders(SelectSeq(fn_in.changes, WellFormed),
                                              fn_in.outcomes, Now)

\* C14: the confidence of every record lies in [0.7, 1.0] (700..1000
\* thousandths), is 1.0 exactly when days_ago = 0 and 0.7 exactly when
\* days_ago = WINDOW, and a record that is older than another never has the
\* higher confidence; over the whole window the value computed for days_ago
\* never rises from one day to the next.
C14_ConfidenceRange ==
    pc = "fn_done"
        => /\ \A d \in 0..(CONFOUNDING_WINDOW_DAYS - 1) :
                /\ Confidence(d) >= Confidence(d + 1)
                /\ Confidence(d) > 700 /\ Confidence(d + 1) < 1000
           /\ \A i \in 1..Len(fn_out.confounders) :
            LET r == fn_out.confounders[i]
            IN  /\ 700 <= r.confidence /\ r.confidence <= 1000
                /\ r.confidence = 1000 <=> r.days_ago = 0
                /\ r.confidence = 700 <=> r.days_ago = CONFOUNDING_WINDOW_DAYS
                /\ \A j \in 1..Len(fn_out.confounders) :
                    r.days_ago <= fn_out.confounders[j].days_ago
                        => r.confidence >= fn_out.confounders[j].confidence

\* C14 witness: a same-day change and a change at the window boundary both
\* became records, with confidence 1.0 and 0.7.
C14_Witness ==
    /\ pc = "fn_done"
    /\ Len(fn_out.confounders) = 2
    /\ fn_out.confounders[1].days_ago = 0
    /\ fn_out.confounders[1].confidence = 1000
    /\ fn_out.confounders[2].days_ago = CONFOUNDING_WINDOW_DAYS
    /\ fn_out.confounders[2].confidence = 700

\* C15: in a result of detect_confounders decision_safe is true exactly when the
\* confounder list is empty, and total_confounders is the length of the list;
\* no changes at all, or only changes that are excluded, give no confounder and
\* decision_safe = true.
C15_SafeIffNoConfounders ==
    (pc = "fn_done" /\ fn_out.ok)
        => /\ fn_out.decision_safe <=> fn_out.confounders = <<>>
           /\ fn_out.total_confounders = Len(fn_out.confounders)
           /\ (\A k \in 1..Len(fn_in.changes) : Excluded(fn_in.changes[k], fn_in.outcomes))
                => fn_out.decision_safe /\ fn_out.total_confounders = 0

\* C15 witness: a log of an old change and a change without overlap, found safe.
C15_Witness ==
    /\ pc = "fn_done"
    /\ fn_out.ok
    /\ Len(fn_in.changes) = 2
    /\ WholeDays(fn_in.changes[1].tick) > CONFOUNDING_WINDOW_DAYS
    /\ fn_in.changes[1].metrics \cap Range(fn_in.outcomes) # {}
    /\ WholeDays(fn_in.changes[2].tick) = 0
    /\ fn_in.changes[2].metrics \cap Range(fn_in.outcomes) = {}
    /\ fn_out.decision_safe
    /\ fn_out.total_confounders = 0

\* C16: every team impact record has risk_level high if the team's affected
\* metrics meet the union of the confounders' affected_metrics, medium if there
\* are confounders but none touches the team's affected metrics, low if there
\* is no confounder.
C16_RiskLevel ==
    \A i \in 1..Len(team_impacts) :
        LET t == team_impacts[i]
            detected == confounder_result.confounders
            confounded == UNION {detected[k].affected_metrics : k \in 1..Len(detected)}
        IN  /\ t.risk_level \in {"high", "medium", "low"}
            /\ t.risk_level = "high" <=> t.affected_metrics \cap confounded # {}
            /\ t.risk_level = "medium"
                <=> (detected # <<>> /\ t.affected_metrics \cap confounded = {})
            /\ t.risk_level = "low" <=> detected = <<>>

\* C16 witness: with a confounder on conversion_rate, one team is at high risk
\* and another, whose outcome no confounder touches, at medium risk.
C16_Witness ==
    /\ confounder_result.confounders # <<>>
    /\ \E i, j \in 1..Len(team_impacts) :
        /\ team_impacts[i].risk_level = "high"
        /\ team_impacts[j].risk_level = "medium"

\* _assess_team_impacts has run for the request
Assessed == pc \in {"assemble", "audit"} \/ (pc = "done" /\ rec_path # "none")

\* C17: the assessor emits a record for a team exactly when the team's owned
\* metrics meet the outcomes; a record has affected_metrics = that non-empty
\* intersection and direction = uncertain; no team has two records, and a team
\* without overlap (operations owns no metric) has none.
C17_TeamEmittedIffOverlap ==
    Assessed
        => LET outcome_set == Range(parsed.outcomes)
               Emitted(team) == \E i \in 1..Len(team_impacts) : team_impacts[i].team = team
           IN  /\ \A k \in 1..Len(TEAM_METRICS) :
                    Emitted(TEAM_METRICS[k][1]) <=> TEAM_METRICS[k][2] \cap outcome_set # {}
               /\ ~Emitted("operations")
               /\ \A i \in 1..Len(team_impacts) :
                    /\ \E k \in 1..Len(TEAM_METRICS) :
                        /\ team_impacts[i].team = TEAM_METRICS[k][1]
                        /\ team_impacts[i].affected_metrics
                                = TEAM_METRICS[k][2] \cap outcome_set
                    /\ team_impacts[i].affected_metrics # {}
                    /\ team_impacts[i].direction = "uncertain"
                    /\ \A j \in 1..Len(team_impacts) :
                        team_impacts[j].team = team_impacts[i].team => j = i

\* C17 witness: outcomes owned by growth and product gave records for these two
\* teams and for no other.
C17_Witness ==
    /\ Assessed
    /\ Len(team_impacts) = 2
    /\ team_impacts[1].team = "growth"
    /\ team_impacts[1].affected_metrics = {"conversion_rate"}
    /\ team_impacts[2].team = "product"

\* C18: when the brief of a Success result is the fallback's, it has
\* decision_safe = (no confounders), confidence_level = LOW, suggested_action =
\* WAIT with confounders and RUN_EXPERIMENT without, monitoring_required = the
\* first 3 outcomes, and the two fixed stop-loss triggers.
C18_FallbackBrief ==
    (outcome = Success /\ rec_path = "rule_based")
        => LET any == response.confounders_detected # <<>>
               mon == response.monitoring_required
           IN  /\ response.decision_safe = ~any
               /\ response.confidence_level = "LOW"
               /\ response.suggested_action = (IF any THEN "WAIT" ELSE "RUN_EXPERIMENT")
               /\ Len(mon) = (IF Len(response.outcomes) < 3 THEN Len(response.outcomes) ELSE 3)
               /\ \A i \in 1..Len(mon) : mon[i] = response.outcomes[i]
               /\ response.stop_loss_triggers
                    = <<"Significant metric degradation", "Unexpected side effects">>
               /\ response.none \cap {"monitoring_required", "stop_loss_triggers"} = {}

\* C18 witness: a fallback brief for four outcomes with a confounder: WAIT, and
\* three metrics to monitor.
C18_Witness ==
    /\ outcome = Success
    /\ rec_path = "rule_based"
    /\ Len(response.outcomes) = 4
    /\ Len(response.monitoring_required) = 3
    /\ response.confounders_detected # <<>>
    /\ response.suggested_action = "WAIT"

\* C19: when the parsed question of a Success result came from the rule-based
\* parser fallback, the warnings of the result record that question parsing
\* used fallback mode.
C19_DegradedParseIsWarned ==
    (outcome = Success /\ parse_path = "rule_based")
        => "Question parsing used fallback mode" \in Range(response.warnings)

\* C20: a hard error that ends the parse stage or the recommendation stage
\* aborts the request and reaches the caller as that error: no later stage has
\* run, there is no AnalyzeResponse and no audit row, and no fallback result
\* was substituted.
C20_HardErrorAbortsRequest ==
    \A st \in Stages :
        (hist[st] # <<>> /\ Last(hist[st]) \in HardErrors)
            => /\ pc = "done"
               /\ outcome = HttpError(Last(hist[st]))
               /\ outcome \in {"503 ollama unavailable", "500 model missing"}
               /\ PathOf(st) = "none"
               /\ team_impacts = <<>>
               /\ response = NoResponse
               /\ db = <<>>
               /\ st = "parse"
                    => /\ parsed = NoParsed
                       /\ context = NoContext
                       /\ warnings = <<>>
                       /\ recent_changes = <<>>
                       /\ confounder_result = NoDetection
                       /\ calls["recommend"] = 0
                       /\ recommendation = EmptyObj
               /\ st = "recommend" => recommendation = EmptyObj

\* C20 witness: the parse stage ended with model-not-found on a retry; nothing
\* after it has run.
C20_Witness ==
    /\ hist["parse"] = <<"generic", "ModelNotFoundError">>
    /\ pc = "done"
    /\ outcome = "500 model missing"
    /\ calls["recommend"] = 0

\* C21: when the audit write fails, the request still ends in Success; the
\* result is the one a successful write would have returned, but for the
\* warning appended to its warnings list (created if it was absent), and no row
\* was written.
C21_AuditFailureIsWarned ==
    (pc = "done" /\ rec_path # "none" /\ ~ResponseRaises(recommendation) /\ db = <<>>)
        => LET written == AnalyzeResponse(decision_id, request, parsed, recommendation,
                                          confounder_result, team_impacts, warnings)
           IN  /\ outcome = Success
               /\ response.warnings = written.warnings \o <<"Decision logging failed">>
               /\ "warnings" \notin response.none
               /\ \A f \in DOMAIN response \ {"warnings", "none"} : response[f] = written[f]
               /\ response.none \cup {"warnings"} = written.none \cup {"warnings"}

\* C21 witness: the write failed for a result that had no warnings list, with
\* confounders in it.
C21_Witness ==
    /\ outcome = Success
    /\ db = <<>>
    /\ warnings = <<>>
    /\ response.warnings = <<"Decision logging failed">>
    /\ response.confounders_detected # <<>>

\* retrieve_context has run for the request
Retrieved ==
    \/ pc \in {"detect", "recommend", "assess", "assemble", "audit"}
    \/ pc = "done" /\ parse_path # "none"

\* C22: an empty index or a failure of retrieval never fails the request:
\* retrieve_context returns a context (empty, with its warning, when degraded),
\* the request goes on, a request that fails after retrieval fails for another
\* reason, and the warnings of retrieval open the warnings of the result, in
\* the order retrieval gave them.
C22_RetrievalNeverFails ==
    Retrieved
        => /\ context \in
                {[relevant_experiments |-> "experiments", warnings |-> <<>>],
                 [relevant_experiments |-> "",
                  warnings |-> <<"No documents indexed. Run ingest_documents.py">>],
                 [relevant_experiments |-> "", warnings |-> <<"Document retrieval error">>]}
           /\ warnings = context.warnings
           /\ (pc = "done" /\ outcome # Success)
                => \/ hist["recommend"] # <<>> /\ Last(hist["recommend"]) \in HardErrors
                   \/ \E i \in 1..Len(recent_changes) : recent_changes[i].kind = "not_dict"
                   \/ ResponseRaises(recommendation)
           /\ outcome = Success
                => /\ Len(response.warnings) >= Len(context.warnings)
                   /\ SubSeq(response.warnings, 1, Len(context.warnings)) = context.warnings

\* C22 witness: retrieval failed, detection and synthesis ran with the empty
\* context, and the Success result opens with the retrieval warning, followed
\* by the warning of the audit step.
C22_Witness ==
    /\ outcome = Success
    /\ context.relevant_experiments = ""
    /\ rec_path = "backend"
    /\ response.confounders_detected # <<>>
    /\ response.warnings = <<"Document retrieval error", "Decision logging failed">>

\* the stages of a request, in the order of the code
StageOrder == <<"idle", "parse", "retrieve", "detect", "recommend", "assess",
                "assemble", "audit", "done">>

StageRank(p) == CHOOSE i \in 1..Len(StageOrder) : StageOrder[i] = p

\* C23: the stages of a request run in the fixed order decision_id, parse,
\* retrieve, detect, recommend, assess, assemble, audit: every step stays in its
\* stage (a retry of a backend loop) or moves to the next stage or to the end,
\* never back, and what a stage produces is written in that stage only.
C23_StagesInOrder ==
    [][ /\ StageRank(pc') >= StageRank(pc)
        /\ StageRank(pc') > StageRank(pc)
            => StageRank(pc') = StageRank(pc) + 1 \/ pc' = "done"
        /\ StageRank(pc') = StageRank(pc) => pc \in {"parse", "recommend"}
        /\ decision_id' # decision_id => pc = "idle" /\ pc' = "parse"
        /\ (parsed' # parsed \/ parse_path' # parse_path) => pc = "parse" /\ pc' = "retrieve"
        /\ (context' # context \/ warnings' # warnings) => pc = "retrieve"
        /\ (confounder_result' # confounder_result \/ recent_changes' # recent_changes)
            => pc = "detect"
        /\ calls'["parse"] # calls["parse"] => pc = "parse"
        /\ calls'["recommend"] # calls["recommend"] => pc = "recommend"
        /\ (recommendation' # recommendation \/ rec_path' # rec_path)
            => pc = "recommend" /\ pc' = "assess"
        /\ team_impacts' # team_impacts => pc = "assess"
        /\ response' # response => pc \in {"assemble", "audit"}
        /\ db' # db => pc = "audit"
      ]_vars

\* C23 witness: a request that went through every stage, each backend call
\* answered at once, and whose row was written.
C23_Witness ==
    /\ pc = "done"
    /\ outcome = Success
    /\ hist["parse"] = <<"returned">>
    /\ hist["recommend"] = <<"returned">>
    /\ team_impacts # <<>>
    /\ Len(db) = 1

\* C24: decision_id is generated when analyze starts, before the parse stage
\* and whatever happens later, and it is unique: two requests never have the
\* same decision_id, so no audit write fails on the unique key.
C24_DecisionIdUnique ==
    /\ \A r \in Reqs : inflight[r].pc # "idle" => inflight[r].decision_id # ""
    /\ \A r, q \in Reqs :
        (r # q /\ inflight[r].decision_id # "")
            => inflight[r].decision_id # inflight[q].decision_id
    /\ \A r \in Reqs : inflight[r].logged # "unique_violation"

C25_HardFailuresDistinct ==
    \A st \in Stages :
        /\ err[st].type = "ConnectError"
            => outcome = "503 ollama unavailable"
        /\ (err[st].type = "BackendError" /\ err[st].nf)
            => outcome = "500 model missing"
        /\ (hist[st] # <<>> /\ Last(hist[st]) = "OllamaUnavailableError")
            => outcome = "503 ollama unavailable"
        /\ (hist[st] # <<>> /\ Last(hist[st]) = "ModelNotFoundError")
            => outcome = "500 model missing"
        /\ outcome \in {Success, "500 analysis failed", "422 validation error"}
            => (hist[st] = <<>> \/ Last(hist[st]) \notin HardErrors)

\* C25 witness: the model was missing when the synthesizer first called the
\* backend; the caller got the model-missing error.
C25_Witness ==
    /\ hist["recommend"] = <<"ModelNotFoundError">>
    /\ err["recommend"] = Exc("BackendError", TRUE)
    /\ outcome = "500 model missing"

\* C26: a request without a question is rejected with a validation error before
\* the pipeline is entered: no decision_id, no backend call, no retrieval, no
\* detection, no audit row.
C26_BadInputRejectedFirst ==
    (pc # "idle" /\ ~request.valid)
        => /\ pc = "done"
           /\ outcome = "422 validation error"
           /\ decision_id = ""
           /\ \A st \in Stages : calls[st] = 0 /\ hist[st] = <<>>
           /\ parse_path = "none" /\ rec_path = "none"
           /\ context = NoContext
           /\ recent_changes = <<>>
           /\ confounder_result = NoDetection
           /\ response = NoResponse
           /\ db = <<>>

\* C26 witness: a request without a question was answered.
C26_Witness ==
    /\ pc = "done"
    /\ ~request.valid
    /\ outcome = "422 validation error"

\* a stretch of text without JSON, braces or fences
AllProse(s) == \A i \in 1..Len(s) : s[i].tok \in {"prose", "not_found"}

JsonValues == {ObjParseGood, ObjBriefSafe, JsonList}

\* shape (a): the text is raw JSON
IsRaw(text, v) == text = <<Lit(v)>>

\* shape (b): v in a marked code block, the text before the block being prose
IsFenced(text, v) ==
    \E i \in 1..(Len(text) - 2) :
        /\ AllProse(SubSeq(text, 1, i - 1))
        /\ text[i].tok = "fence_json"
        /\ text[i + 1] = Lit(v)
        /\ text[i + 2].tok = "fence"

\* shape (c): the object v with prose around it; fences without a parseable
\* block may stand in the prose
IsEmbedded(text, v) ==
    /\ v.isdict
    /\ \E i \in 1..Len(text) :
        /\ text[i] = Lit(v)
        /\ \A j \in 1..Len(text) :
            j # i => text[j].tok \in {"prose", "not_found", "fence_json", "fence"}

\* C28: JSON extraction returns the embedded value for raw JSON, for JSON in a
\* marked code block after prose (whatever follows the block) and for an
\* object embedded in prose (first "{" to last "}"); a block that does not
\* parse falls through to the embedded object; what is returned is a JSON
\* value of the text, and the attempt fails only if the text has none of the
\* three shapes.
C28_ExtractionShapes ==
    pc = "fn_done"
        => /\ \A v \in JsonValues :
                /\ IsRaw(fn_in, v) => fn_out.ok /\ fn_out.val = v
                /\ IsFenced(fn_in, v) => fn_out.ok /\ fn_out.val = v
                /\ IsEmbedded(fn_in, v) => fn_out.ok /\ fn_out.val = v
           /\ fn_out.ok => \E i \in 1..Len(fn_in) : fn_in[i] = Lit(fn_out.val)
           /\ ~fn_out.ok
                => \A v \in JsonValues :
                    ~IsRaw(fn_in, v) /\ ~IsFenced(fn_in, v) /\ ~IsEmbedded(fn_in, v)

\* C28 witness: prose, then a marked block holding a JSON value that is no
\* object; the block's value was returned.
C28_Witness ==
    /\ pc = "fn_done"
    /\ fn_in = <<Tok("prose"), Tok("fence_json"), Lit(JsonList), Tok("fence")>>
    /\ fn_out.ok
    /\ fn_out.val = JsonList

\* C29: the first invocation of a call is made with the prompt as written, the
\* invocation of the k-th retry with exactly k copies of the directive
\* appended; a directive is appended only by an attempt that failed
\* generically and is to be retried, one copy at a time, never by an attempt
\* that returned, that ended in a hard error, or that was the last one.
C29_RetryEscalation ==
    [][ \A st \in Stages :
            /\ calls'[st] # calls[st]
                => /\ calls'[st] = calls[st] + 1
                   /\ directives[st] = calls[st]
                   /\ attempt[st] = calls[st]
            /\ directives'[st] # directives[st]
                => /\ directives'[st] = directives[st] + 1
                   /\ calls'[st] = calls[st] + 1
                   /\ Last(hist'[st]) = "generic"
                   /\ directives'[st] <= LLM_MAX_RETRIES
            /\ (calls'[st] # calls[st] /\ directives'[st] = directives[st])
                => \/ Last(hist'[st]) \in HardErrors \cup {"returned"}
                   \/ Last(hist'[st]) = "generic" /\ calls'[st] = LLM_MAX_RETRIES + 1
      ]_vars

\* C29 witness: the parser's call returned on its second retry, made with two
\* copies of the directive.
C29_Witness ==
    /\ hist["parse"] = <<"generic", "generic", "returned">>
    /\ directives["parse"] = LLM_MAX_RETRIES
    /\ parse_path = "backend"

\* the JSON objects a reply of the backend can parse to
BackendObjects ==
    {InvokeAndParse(r).val :
        r \in {x \in BackendReplies :
                  InvokeAndParse(x).exc = NoErr /\ InvokeAndParse(x).val.isdict}}

\* C30: when the backend's brief is kept although confounders were found, the
\* brief differs from what the backend returned in decision_safe only
\* (suggested_action can still be PROCEED), the result takes the other fields
\* from it, and the result's warnings hold no warning about the override: only
\* those of retrieval and of the audit step.
C30_OverrideIsSilent ==
    (rec_path = "backend" /\ confounder_result.confounders # <<>>)
        => /\ \E b \in BackendObjects :
                recommendation = [b EXCEPT !.decision_safe = FALSE,
                                           !.has = @ \cup {"decision_safe"},
                                           !.bad = @ \ {"decision_safe"}]
           /\ outcome = Success
                => /\ response.decision_safe = FALSE
                   /\ response.confidence_level
                        = Get(recommendation, "confidence_level", "LOW")
                   /\ response.suggested_action
                        = Get(recommendation, "suggested_action", "WAIT")
                   /\ response.reasoning = Get(recommendation, "reasoning", "")
                   /\ Range(response.warnings)
                        \subseteq {"No documents indexed. Run ingest_documents.py",
                                   "Document retrieval error", "Decision logging failed"}

\* C30 witness: the backend said decision_safe: true, HIGH, PROCEED, "looks
\* fine" with a confounder present; the result keeps all of it but
\* decision_safe, and has no warnings at all.
C30_Witness ==
    /\ outcome = Success
    /\ rec_path = "backend"
    /\ response.confounders_detected # <<>>
    /\ response.decision_safe = FALSE
    /\ response.confidence_level = "HIGH"
    /\ response.suggested_action = "PROCEED"
    /\ response.reasoning = "looks fine"
    /\ "warnings" \in response.none

\* the words of the vocabulary that hold "why" or "cause" once in lower case
CausalWords == {"Why", "because"}

\* the words of the vocabulary that hold "impact" or "effect"
ImpactWords == {"impact", "effect"}

\* C31: the rule-based parser gives decision_type root_cause whenever the
\* question holds why- or cause-language, with impact-language or without;
\* impact_analysis when it holds impact-language and no why-language; should_we
\* otherwise; always one of the three values.
C31_DecisionTypeRules ==
    pc = "fn_done"
        => LET causal == Range(fn_in) \cap CausalWords # {}
               impact == Range(fn_in) \cap ImpactWords # {}
           IN  /\ fn_out.decision_type \in {"root_cause", "impact_analysis", "should_we"}
               /\ causal => fn_out.decision_type = "root_cause"
               /\ (impact /\ ~causal) => fn_out.decision_type = "impact_analysis"
               /\ (~impact /\ ~causal) => fn_out.decision_type = "should_we"

\* C31 witness: a question with impact-language before why-language (inside
\* "because") was parsed as root_cause.
C31_Witness ==
    /\ pc = "fn_done"
    /\ Len(fn_in) >= 2
    /\ fn_in[1] = "effect"
    /\ fn_in[2] = "because"
    /\ fn_out.decision_type = "root_cause"

\* the words of the vocabulary that hold an action keyword once in lower case
ActionWords == {"reduce", "Reduce", "change"}

\* the positions of a question at which an action keyword occurs
ActionPositions(q) == {i \in 1..Len(q) : q[i] \in ActionWords}

\* C32: when an action keyword occurs in the question, the rule-based
\* treatment is the excerpt that starts at the keyword occurring earliest in
\* the question and stops before the first "?"; with no action keyword it is
\* "unknown_change".  (Questions here are shorter than the 50-character limit
\* of the excerpt.)
C32_TreatmentStartsAtEarliestKeyword ==
    pc = "fn_done"
        => IF ActionPositions(fn_in) = {}
           THEN fn_out.treatment = <<"unknown_change">>
           ELSE LET first == CHOOSE i \in ActionPositions(fn_in) :
                                 \A j \in ActionPositions(fn_in) : i <= j
                    rest == SubSeq(fn_in, first, Len(fn_in))
                IN  /\ fn_out.treatment # <<>>
                    /\ Len(fn_out.treatment) <= Len(rest)
                    /\ fn_out.treatment = SubSeq(rest, 1, Len(fn_out.treatment))
                    /\ "?" \notin Range(fn_out.treatment)
                    /\ \/ Len(fn_out.treatment) = Len(rest)
                       \/ rest[Len(fn_out.treatment) + 1] = "?"

\* the metric identifiers of the keyword dictionary
DictionaryMetrics == {MetricKeywords[k][2] : k \in 1..Len(MetricKeywords)}

\* C37: the outcomes of the rule-based parser hold only metric identifiers of
\* the keyword dictionary, each of them at most once.
C37_RuleBasedOutcomesDistinct ==
    pc = "fn_done"
        => /\ Range(fn_out.outcomes) \subseteq DictionaryMetrics
           /\ \A i, j \in 1..Len(fn_out.outcomes) :
                  fn_out.outcomes[i] = fn_out.outcomes[j] => i = j

\* C33: the audit store gets at most one row per request, only once the result
\* is assembled, and the row's decision_id, decision_safe and suggested_action
\* are those of the returned result; a request that ends in a hard failure
\* leaves the store empty.
C33_AuditRowMatchesResult ==
    /\ Len(db) <= 1
    /\ db # <<>>
        => /\ pc = "done"
           /\ outcome = Success
           /\ response # NoResponse
           /\ db[1].decision_id = decision_id
           /\ db[1].decision_id = response.decision_id
           /\ db[1].decision_safe = response.decision_safe
           /\ db[1].suggested_action = response.suggested_action
    /\ outcome \notin {"none", Success} => db = <<>>

\* C33 witness: a row was written for a result that the backend called unsafe
\* although no confounder was detected.
C33_Witness ==
    /\ outcome = Success
    /\ Len(db) = 1
    /\ response.confounders_detected = <<>>
    /\ ~db[1].decision_safe
    /\ db[1].suggested_action = response.suggested_action

\* C34: in every Success result confounders_detected is the detector's list
\* for the request's change log and the parsed outcomes (same records, same
\* order), outcomes and treatment are those of the ParsedQuestion and question
\* is the request's question, whichever brief the recommendation stage got.
C34_SynthesizerKeepsDetection ==
    outcome = Success
        => /\ response.confounders_detected = confounder_result.confounders
           /\ response.confounders_detected
                  = detect_confounders(recent_changes, parsed.outcomes, Now).confounders
           /\ response.outcomes = parsed.outcomes
           /\ response.treatment = parsed.treatment
           /\ response.question = request.question

\* C34 witness: the backend's brief named other metrics to monitor than the
\* parsed outcomes, two confounders were detected, and the result kept both.
C34_Witness ==
    /\ outcome = Success
    /\ rec_path = "backend"
    /\ Len(response.confounders_detected) = 2
    /\ response.monitoring_required # <<>>
    /\ Range(response.monitoring_required) # Range(response.outcomes)

\* C35: the rounded confidence is strictly decreasing in days_ago over the
\* whole window, so two records of one result have the same confidence only
\* when they have the same days_ago, and the returned list is ordered by
\* days_ago, most recent first.
C35_OrderedByRecency ==
    pc = "fn_done"
        => LET out == fn_out.confounders
           IN  /\ \A d \in 0..(CONFOUNDING_WINDOW_DAYS - 1) : Confidence(d) > Confidence(d + 1)
               /\ \A i, j \in 1..Len(out) :
                    /\ out[i].confidence = out[j].confidence => out[i].days_ago = out[j].days_ago
                    /\ out[i].days_ago < out[j].days_ago => out[i].confidence > out[j].confidence
                    /\ i < j => out[i].days_ago <= out[j].days_ago

\* C35 witness: the change log named a week-old change before yesterday's, and
\* the result lists yesterday's first.
C35_Witness ==
    /\ pc = "fn_done"
    /\ Len(fn_in.changes) = 2
    /\ DaysSince(Now, fn_in.changes[1].tick) = 7
    /\ DaysSince(Now, fn_in.changes[2].tick) = 1
    /\ Len(fn_out.confounders) = 2
    /\ fn_out.confounders[1].days_ago = 1
    /\ fn_out.confounders[2].days_ago = 7

\* the metrics that some team owns
OwnedMetrics == UNION {TEAM_METRICS[k][2] : k \in 1..Len(TEAM_METRICS)}

\* C36: the risk levels of a result follow the confounder list: with no
\* confounder every team record is low; with a confounder every record is
\* medium or high; with a confounder and every outcome owned by some team, at
\* least one record is high.
C36_RiskCoherence ==
    Assessed
        => LET detected == confounder_result.confounders
               Risks == {team_impacts[i].risk_level : i \in 1..Len(team_impacts)}
           IN  /\ detected = <<>> => Risks \subseteq {"low"}
               /\ detected # <<>> => Risks \subseteq {"medium", "high"}
               /\ (detected # <<>> /\ Range(parsed.outcomes) \subseteq OwnedMetrics)
                    => "high" \in Risks

\* C36 witness: one confounder, outcomes that are all owned, and the only team
\* record is at high risk.
C36_Witness ==
    /\ Assessed
    /\ Len(confounder_result.confounders) = 1
    /\ parsed.outcomes # <<>>
    /\ Range(parsed.outcomes) \subseteq OwnedMetrics
    /\ Len(team_impacts) = 1
    /\ team_impacts[1].risk_level = "high"

====
